---- MODULE Spec2Model ----
(***************************************************************************)
(* Company dashboard, applications tab (src/frontend/company.js): the      *)
(* selection set, the status filter, the rendered applications view, the   *)
(* confirmation dialogs and the single / bulk status updaters, together    *)
(* with the requests they have in flight and the server they talk to.      *)
(*                                                                         *)
(* The page runs on one event loop: one action is one macrotask (a user    *)
(* event handler, or the arrival of a response together with the promise   *)
(* continuations it releases).  An await is a suspension point, so each    *)
(* async function is cut at its awaits.                                    *)
(***************************************************************************)
EXTENDS Integers, Sequences, FiniteSets, Bags, TLC

\* ---------------------------------------------------------------- bounds
MaxApps == 2
MaxFetches == 2
MaxModals == 2
MaxOps == 1
MaxTrapped == 2
MaxFocusable == 3
MaxPage == 2
MaxTimers == 3

Ids == 1..MaxApps

\* ------------------------------------------------------ program constants
Statuses == {"pending", "shortlisted", "interviewed", "hired", "rejected"}

FilterTags == {"all"} \cup Statuses

\* The values the explored inputs are drawn from.
StatusInputs == {"shortlisted"}

InitialStatuses == {"pending"}

FilterInputs == {"all", "pending"}

VARIABLES
    server,                 \* the backend's status of every application record
    selectedApplications,   \* company.js:284
    currentStatusFilter,    \* company.js:285
    view,                   \* what #companyApplications currently shows
    fetches,                \* list fetches of loadCompanyApplications in flight
    modals,                 \* the .modal elements of document.body, in document order
    ops,                    \* confirmStatusUpdate / confirmBulkUpdate invocations awaiting
    last,                   \* what the last step showed: the handler and its notifications
    body,                   \* a11y.js: the modal elements of the document with their focusable descendants
    traps,                  \* a11y.js:106-145, what trapFocusInModal has installed on each modal element
    activeElement,          \* document.activeElement
    hidden,                 \* a11y.js:149-152, the modal elements closeOpenElements has set to display none
    liveRegions,            \* a11y.js:166-184, the text content of the two live regions
    timers,                 \* a11y.js:193-195, the setTimeout callbacks of announce not yet run, oldest first
    announced,              \* the message of the latest announce call, for each live region
    promotion               \* scripts/promote_to_production.sh: where a run of the script is and what it has done

vars ==
    <<server, selectedApplications, currentStatusFilter, view, fetches, modals, ops, last,
      body, traps, activeElement, hidden, liveRegions, timers, announced, promotion>>

\* The state of the focus management of a11y.js, that of its announcer, and
\* that of the dashboard.
focus == <<body, traps, activeElement, hidden>>

announcer == <<liveRegions, timers, announced>>

dashboard == <<server, selectedApplications, currentStatusFilter, view, fetches, modals, ops>>

\* ------------------------------------------------ focus: elements and Init
\* The modal elements that can be created, told apart by their identity.
ModalEls == 1..MaxTrapped

\* A focusable element: the at-th focusable descendant of modal element
\* owner, or the at-th focusable element of the page outside every modal
\* (owner 0).  BodyElement is document.body, the active element while nothing
\* has focus.
El(owner, at) == [owner |-> owner, at |-> at]

BodyElement == El(0, 0)

NoTrap == [installed |-> FALSE, first |-> BodyElement, last |-> BodyElement,
           previouslyFocused |-> BodyElement]

InitFocus ==
    /\ body = <<>>
    /\ traps = [m \in ModalEls |-> NoTrap]
    /\ activeElement = BodyElement
    /\ hidden = {}

\* --------------------------------------------- announcer: regions and Init
\* Lines 166-184: the two live regions, by the id setupLiveRegions gives them.
PoliteRegion == "live-region-polite"

AssertiveRegion == "live-region-assertive"

Regions == {PoliteRegion, AssertiveRegion}

InitAnnouncer ==
    /\ liveRegions = [r \in Regions |-> ""]
    /\ timers = <<>>
    /\ announced = [r \in Regions |-> ""]

\* ------------------------------------------------ promotion script: Init
\* No run of the script has been started: at is the step the run is at,
\* argument its first argument and ran the git commands and answered prompts
\* of the run so far, oldest first.
NotStarted == [at |-> "not started", argument |-> <<>>, ran |-> <<>>]

InitPromotion == promotion = NotStarted

\* ------------------------------------------------------------ the server
\* GET /jobs/company/applications: the records, in the server's (fixed) order.
AppList(s) == [i \in 1..MaxApps |-> [id |-> i, status |-> s[i]]]

\* ------------------------------------------------- loadCompanyApplications
RowIds(rows) == {rows[k].id : k \in 1..Len(rows)}

\* The filter applied whatever the tag: no record has the status "all".
FilteredAppsByTagOnly(applications, filter) ==
    SelectSeq(applications, LAMBDA app : app.status = filter)

FilteredApps(applications, filter) ==
    IF filter = "all"
    THEN applications
    ELSE SelectSeq(applications, LAMBDA app : app.status = filter)

CountStatus(applications, status) ==
    Len(SelectSeq(applications, LAMBDA a : a.status = status))

Stats(applications) ==
    [total |-> Len(applications),
     pending |-> CountStatus(applications, "pending"),
     shortlisted |-> CountStatus(applications, "shortlisted"),
     interviewed |-> CountStatus(applications, "interviewed"),
     hired |-> CountStatus(applications, "hired"),
     rejected |-> CountStatus(applications, "rejected")]

BlankView(kind) ==
    [kind |-> kind, rows |-> <<>>, tab |-> "", checked |-> {}, buttons |-> FALSE,
     selectAll |-> FALSE, stats |-> Stats(<<>>)]

SelectAllChecked(selected, filteredApps) ==
    Cardinality(selected) = Len(filteredApps) /\ Len(filteredApps) > 0

\* The table template with the tab counts taken from the visible rows.
TableViewCountsVisible(applications, filter, selected) ==
    LET filteredApps == FilteredApps(applications, filter) IN
    [kind |-> "table",
     rows |-> filteredApps,
     tab |-> filter,
     checked |-> RowIds(filteredApps) \cap selected,
     buttons |-> Cardinality(selected) > 0,
     selectAll |-> SelectAllChecked(selected, filteredApps),
     stats |-> Stats(filteredApps)]

\* The template of lines 328-458, rendered from the module state as it is when
\* the response has been read; the counts on the filter tabs are stats.
TableView(applications, filter, selected) ==
    LET filteredApps == FilteredApps(applications, filter) IN
    [kind |-> "table",
     rows |-> filteredApps,
     tab |-> filter,
     checked |-> RowIds(filteredApps) \cap selected,
     buttons |-> Cardinality(selected) > 0,
     selectAll |-> SelectAllChecked(selected, filteredApps),
     stats |-> Stats(applications)]

RenderApplications(applications, filter, selected) ==
    IF Len(applications) = 0
    THEN BlankView("empty")
    ELSE TableView(applications, filter, selected)

SentFetch == [st |-> "sent", apps |-> <<>>]

CanLoad == BagCardinality(fetches) < MaxFetches

\* The synchronous part of loadCompanyApplications: the loading placeholder
\* replaces the view and the list request leaves.
LoadCompanyApplications ==
    /\ view' = BlankView("loading")
    /\ fetches' = fetches (+) SetToBag({SentFetch})

\* ------------------------------------------------------------------ ghost
Note(type, n) == [type |-> type, n |-> n]

\* What the last step showed: the handler that ran (call), the notifications it
\* passed to showNotification (notes), how many update requests that handler
\* had dispatched (sent) and a count n that depends on the handler: the size of
\* the selection it found (filterByStatus), or the number of its requests
\* still in flight (confirmBulkUpdate).  A step that shows nothing is Quiet.
Last(call, n, sent, notes) == [call |-> call, n |-> n, sent |-> sent, notes |-> notes]

Quiet == Last("-", 0, 0, <<>>)

\* ------------------------------------------------------------------- Init
FreeOp ==
    [kind |-> "free", ids |-> {}, status |-> "", reqs |-> [i \in Ids |-> "-"],
     outcome |-> "none"]

Init ==
    /\ server \in [Ids -> InitialStatuses]
    /\ selectedApplications = {}
    /\ currentStatusFilter = "all"
    /\ view = BlankView("none")
    /\ fetches = EmptyBag
    /\ modals = <<>>
    /\ ops = [i \in 1..MaxOps |-> FreeOp]
    /\ last = Quiet
    /\ InitFocus
    /\ InitAnnouncer
    /\ InitPromotion

\* ---------------------------------------------------------- list fetches
switchCompanyTab ==
    /\ UNCHANGED <<focus, announcer, promotion>>
    /\ CanLoad
    /\ LoadCompanyApplications
    /\ last' = Last("switchCompanyTab", 0, 0, <<>>)
    /\ UNCHANGED <<server, selectedApplications, currentStatusFilter, modals, ops>>

\* The backend answers a list request from its state at that moment; an
\* answer that is not the list (an error body, for instance for an expired
\* credential) has no applications member, and line 297 reads it as [].
ServeList(f, listed) ==
    /\ UNCHANGED <<focus, announcer, promotion>>
    /\ f.st = "sent"
    /\ LET applications == IF listed THEN AppList(server) ELSE <<>>
       IN fetches' = (fetches (-) SetToBag({f})) (+) SetToBag({[st |-> "resp", apps |-> applications]})
    /\ last' = Quiet
    /\ UNCHANGED <<server, selectedApplications, currentStatusFilter, view, modals, ops>>

\* Lines 296-458: the response is read and the view rebuilt.
ListArrives(f) ==
    /\ UNCHANGED <<focus, announcer, promotion>>
    /\ f.st = "resp"
    /\ fetches' = fetches (-) SetToBag({f})
    /\ view' = RenderApplications(f.apps, currentStatusFilter, selectedApplications)
    /\ last' = Quiet
    /\ UNCHANGED <<server, selectedApplications, currentStatusFilter, modals, ops>>

\* Lines 459-462: the request or the parse of its body failed.
ListFails(f) ==
    /\ UNCHANGED <<focus, announcer, promotion>>
    /\ fetches' = fetches (-) SetToBag({f})
    /\ view' = BlankView("error")
    /\ last' = Quiet
    /\ UNCHANGED <<server, selectedApplications, currentStatusFilter, modals, ops>>

\* ------------------------------------------------- selection and filter
\* A toggle that flips the membership of the id whatever checked says.
ToggleSelectionFlips(selected, appId, checked) ==
    IF appId \in selected THEN selected \ {appId} ELSE selected \cup {appId}

\* Lines 498-502: Set.prototype.add or Set.prototype.delete, by checked.
ToggleSelection(selected, appId, checked) ==
    IF checked THEN selected \cup {appId}
               ELSE selected \ {appId}

\* toggleApplicationSelection without line 503: the set changes and the list
\* is left as rendered.
toggleApplicationSelectionWithoutReload(appId, checked) ==
    /\ UNCHANGED <<focus, announcer, promotion>>
    /\ view.kind = "table"
    /\ appId \in RowIds(view.rows)
    /\ checked = (appId \notin view.checked)
    /\ selectedApplications' = ToggleSelection(selectedApplications, appId, checked)
    /\ last' = Last("toggleApplicationSelection", 0, 0, <<>>)
    /\ UNCHANGED <<server, currentStatusFilter, view, fetches, modals, ops>>

\* Lines 497-504.  The checkbox exists in a rendered row only, and this.checked
\* is the negation of what the row was rendered with.
toggleApplicationSelection(appId, checked) ==
    /\ UNCHANGED <<focus, announcer, promotion>>
    /\ view.kind = "table"
    /\ appId \in RowIds(view.rows)
    /\ checked = (appId \notin view.checked)
    /\ CanLoad
    /\ selectedApplications' = ToggleSelection(selectedApplications, appId, checked)
    /\ LoadCompanyApplications
    /\ last' = Last("toggleApplicationSelection", 0, 0, <<>>)
    /\ UNCHANGED <<server, currentStatusFilter, modals, ops>>

\* toggleSelectAll making the Selection Set the rendered rows, or nothing.
toggleSelectAllReplaces(checked) ==
    /\ UNCHANGED <<focus, announcer, promotion>>
    /\ view.kind = "table"
    /\ checked = ~view.selectAll
    /\ CanLoad
    /\ selectedApplications' = IF checked THEN RowIds(view.rows) ELSE {}
    /\ LoadCompanyApplications
    /\ last' = Last("toggleSelectAll", 0, 0, <<>>)
    /\ UNCHANGED <<server, currentStatusFilter, modals, ops>>

\* Lines 482-495: every row checkbox in the document is walked.
toggleSelectAll(checked) ==
    /\ UNCHANGED <<focus, announcer, promotion>>
    /\ view.kind = "table"
    /\ checked = ~view.selectAll
    /\ CanLoad
    /\ selectedApplications' =
          IF checked THEN selectedApplications \cup RowIds(view.rows)
                     ELSE selectedApplications \ RowIds(view.rows)
    /\ LoadCompanyApplications
    /\ last' = Last("toggleSelectAll", 0, 0, <<>>)
    /\ UNCHANGED <<server, currentStatusFilter, modals, ops>>

\* Lines 506-509.  The Clear button is rendered with the header buttons.
clearSelection ==
    /\ UNCHANGED <<focus, announcer, promotion>>
    /\ view.kind = "table"
    /\ view.buttons
    /\ CanLoad
    /\ selectedApplications' = {}
    /\ LoadCompanyApplications
    /\ last' = Last("clearSelection", 0, 0, <<>>)
    /\ UNCHANGED <<server, currentStatusFilter, modals, ops>>

\* filterByStatus without line 513: the selection survives the filter change.
filterByStatusKeepsSelection(status) ==
    /\ UNCHANGED <<focus, announcer, promotion>>
    /\ view.kind = "table"
    /\ CanLoad
    /\ currentStatusFilter' = status
    /\ LoadCompanyApplications
    /\ last' = Last("filterByStatus", Cardinality(selectedApplications), 0, <<>>)
    /\ UNCHANGED <<server, selectedApplications, modals, ops>>

\* Lines 511-515.  The filter tabs are part of the rendered table view.
filterByStatus(status) ==
    /\ UNCHANGED <<focus, announcer, promotion>>
    /\ view.kind = "table"
    /\ CanLoad
    /\ currentStatusFilter' = status
    /\ selectedApplications' = {}
    /\ LoadCompanyApplications
    /\ last' = Last("filterByStatus", Cardinality(selectedApplications), 0, <<>>)
    /\ UNCHANGED <<server, modals, ops>>

\* ---------------------------------------------------------------- dialogs
\* A .modal element of document.body: what it is, the arguments its Confirm
\* button carries, the suspended handlers (slots of ops) that hold a
\* reference to it from their document.querySelector('.modal'), and whether
\* closeOpenElements (a11y.js:149-152) has set it to display none; the buttons
\* of a hidden dialog cannot be pressed.
StatusModal(appId, newStatus) ==
    [kind |-> "status", appId |-> appId, newStatus |-> newStatus, held |-> {}, hidden |-> FALSE]

BulkModal == [kind |-> "bulk", appId |-> 0, newStatus |-> "", held |-> {}, hidden |-> FALSE]

RemoveAt(doc, k) == SubSeq(doc, 1, k - 1) \o SubSeq(doc, k + 1, Len(doc))

\* const modal = document.querySelector('.modal'): the handler in slot i
\* holds the first .modal of the document.
QueryModal(doc, i) ==
    [k \in 1..Len(doc) |-> IF k = 1 THEN [doc[k] EXCEPT !.held = @ \cup {i}] ELSE doc[k]]

\* modal.remove() by the handler in slot i: the element it holds leaves the
\* document, if it is still there.
ModalRemove(doc, i) == SelectSeq(doc, LAMBDA m : i \notin m.held)

\* The handler in slot i has finished: its reference is dropped.
Release(doc, i) == [k \in 1..Len(doc) |-> [doc[k] EXCEPT !.held = @ \ {i}]]

\* Lines 538-562: the confirmation dialog is appended to document.body.
updateApplicationStatus(appId, newStatus) ==
    /\ UNCHANGED <<focus, announcer, promotion>>
    /\ view.kind = "table"
    /\ appId \in RowIds(view.rows)
    /\ Len(modals) < MaxModals
    /\ modals' = Append(modals, StatusModal(appId, newStatus))
    /\ last' = Quiet
    /\ UNCHANGED <<server, selectedApplications, currentStatusFilter, view, fetches, ops>>

\* The Cancel and the x button of a dialog: this.closest('.modal').remove().
\* The ranked-candidates modal has no button while it is loading (line 661).
closeModal(k) ==
    /\ UNCHANGED <<focus, announcer, promotion>>
    /\ k \in 1..Len(modals)
    /\ ~modals[k].hidden
    /\ modals[k].kind # "candidates loading"
    /\ modals' = RemoveAt(modals, k)
    /\ last' = Quiet
    /\ UNCHANGED <<server, selectedApplications, currentStatusFilter, view, fetches, ops>>

\* ------------------------------------------------------- update requests
\* A PUT /company/applications/{id}/status is in flight ("sent") until its
\* fetch settles for the page: fulfilled with a 2xx ("ok") or a non-2xx
\* ("err") response, or rejected ("fail").
Pending(r) == r = "sent"

Fulfilled(r) == r \in {"ok", "err"}

PendingIds(op) == {id \in op.ids : Pending(op.reqs[id])}

FreeSlots == {i \in 1..MaxOps : ops[i].kind = "free"}

FreeSlot == CHOOSE i \in FreeSlots : \A j \in FreeSlots : i <= j

\* Array.from(selectedApplications).map(appId => fetch(...)), lines 637-646:
\* one request per element of the set.
Dispatch(selected) == [i \in Ids |-> IF i \in selected THEN "sent" ELSE "-"]

\* Promise.any in place of Promise.all: the await resumes at the first
\* fulfilled promise.
PromiseAnyFulfilled(op) == \E id \in op.ids : Fulfilled(op.reqs[id])

\* await Promise.all(promises) resumes normally once every promise is fulfilled.
PromiseAllFulfilled(op) == \A id \in op.ids : Fulfilled(op.reqs[id])

\* await Promise.all(promises) throws as soon as a promise rejects: the one
\* for id just has.
PromiseAllRejected(op, id) == op.reqs[id] = "fail"

\* The slot of a handler that has run to its end and has no request left in
\* flight is free again.
Retire(op) == IF op.outcome # "none" /\ PendingIds(op) = {} THEN FreeOp ELSE op

\* confirmStatusUpdate taking its arguments from the first dialog of the
\* document instead of the one whose Confirm was pressed.
confirmStatusUpdateOfFirstDialog(k) ==
    /\ UNCHANGED <<focus, announcer, promotion>>
    /\ k \in 1..Len(modals)
    /\ modals[k].kind = "status"
    /\ ~modals[k].hidden
    /\ FreeSlots # {}
    /\ ops' = [ops EXCEPT ![FreeSlot] =
                  [kind |-> "single", ids |-> {modals[1].appId}, status |-> modals[1].newStatus,
                   reqs |-> Dispatch({modals[1].appId}), outcome |-> "none"]]
    /\ modals' = QueryModal(modals, FreeSlot)
    /\ last' = Quiet
    /\ UNCHANGED <<server, selectedApplications, currentStatusFilter, view, fetches>>

\* Lines 564-576: Confirm of a status dialog; the request leaves and the
\* handler suspends at the await.
confirmStatusUpdate(k) ==
    /\ UNCHANGED <<focus, announcer, promotion>>
    /\ k \in 1..Len(modals)
    /\ modals[k].kind = "status"
    /\ ~modals[k].hidden
    /\ FreeSlots # {}
    /\ ops' = [ops EXCEPT ![FreeSlot] =
                  [kind |-> "single", ids |-> {modals[k].appId}, status |-> modals[k].newStatus,
                   reqs |-> Dispatch({modals[k].appId}), outcome |-> "none"]]
    /\ modals' = QueryModal(modals, FreeSlot)
    /\ last' = Quiet
    /\ UNCHANGED <<server, selectedApplications, currentStatusFilter, view, fetches>>

\* Lines 591-629.  The Update Selected button is rendered with the header
\* buttons, that is only while something is selected (lines 332-339); the
\* function is global, and its own check of the selection (lines 592-595)
\* answers a call made while nothing is selected.
bulkUpdateStatus ==
    /\ UNCHANGED <<focus, announcer, promotion>>
    /\ \/ /\ Cardinality(selectedApplications) = 0
          /\ last' = Last("bulkUpdateStatus", 0, 0, <<Note("warning", 0)>>)
          /\ UNCHANGED modals
       \/ /\ Cardinality(selectedApplications) # 0
          /\ view.kind = "table"
          /\ view.buttons
          /\ Len(modals) < MaxModals
          /\ modals' = Append(modals, BulkModal)
          /\ last' = Quiet
    /\ UNCHANGED <<server, selectedApplications, currentStatusFilter, view, fetches, ops>>

\* The 2xx branch without line 581: the dialog goes, the list is not re-fetched.
StatusUpdatedWithoutRefresh(i) ==
    /\ modals' = Release(ModalRemove(modals, i), i)
    /\ last' = Last("confirmStatusUpdate.ok", 0, 1, <<Note("success", 0)>>)
    /\ UNCHANGED <<selectedApplications, currentStatusFilter, view, fetches>>

\* Lines 579-581: the 2xx branch of confirmStatusUpdate, run by slot i.
StatusUpdated(i) ==
    /\ CanLoad
    /\ modals' = Release(ModalRemove(modals, i), i)
    /\ LoadCompanyApplications
    /\ last' = Last("confirmStatusUpdate.ok", 0, 1, <<Note("success", 0)>>)
    /\ UNCHANGED <<selectedApplications, currentStatusFilter>>

\* The failure branches closing the dialog as the 2xx branch does.
StatusFailedClosesDialog(i, call) ==
    /\ modals' = Release(ModalRemove(modals, i), i)
    /\ last' = Last(call, 0, 1, <<Note("error", 0)>>)
    /\ UNCHANGED <<selectedApplications, currentStatusFilter, view, fetches>>

\* Lines 584 and 587: the non-2xx branch and the catch of confirmStatusUpdate.
StatusFailed(i, call) ==
    /\ modals' = Release(modals, i)
    /\ last' = Last(call, 0, 1, <<Note("error", 0)>>)
    /\ UNCHANGED <<selectedApplications, currentStatusFilter, view, fetches>>

\* The end of a bulk update putting the filter back to "all".
BulkUpdatedResetsFilter(doc, sent, left) ==
    /\ CanLoad
    /\ selectedApplications' = {}
    /\ modals' = doc
    /\ LoadCompanyApplications
    /\ last' = Last("confirmBulkUpdate.then", left, sent,
                    <<Note("success", Cardinality(selectedApplications))>>)
    /\ currentStatusFilter' = "all"

\* Lines 649-652: the code after await Promise.all of confirmBulkUpdate; doc
\* is the document once the held dialog has been removed, sent the number of
\* requests the handler dispatched and left how many of them are in flight.
BulkUpdated(doc, sent, left) ==
    /\ CanLoad
    /\ selectedApplications' = {}
    /\ modals' = doc
    /\ LoadCompanyApplications
    /\ last' = Last("confirmBulkUpdate.then", left, sent,
                    <<Note("success", Cardinality(selectedApplications))>>)
    /\ UNCHANGED currentStatusFilter

\* Lines 653-655: the catch of confirmBulkUpdate.
BulkFailed(i, sent, left) ==
    /\ modals' = Release(modals, i)
    /\ last' = Last("confirmBulkUpdate.catch", left, sent, <<Note("error", 0)>>)
    /\ UNCHANGED <<selectedApplications, currentStatusFilter, view, fetches>>

\* Lines 631-647: Update All of a bulk dialog; one request per selected id
\* leaves and the handler suspends at await Promise.all.  With nothing
\* selected the array of promises is empty and the handler runs to its end
\* (lines 649-652) without waiting for any response.
confirmBulkUpdate(k, newStatus) ==
    /\ UNCHANGED <<focus, announcer, promotion>>
    /\ k \in 1..Len(modals)
    /\ modals[k].kind = "bulk"
    /\ ~modals[k].hidden
    /\ FreeSlots # {}
    /\ LET op == [kind |-> "bulk", ids |-> selectedApplications, status |-> newStatus,
                  reqs |-> Dispatch(selectedApplications), outcome |-> "none"]
       IN IF PromiseAllFulfilled(op)
          THEN /\ BulkUpdated(RemoveAt(modals, 1), 0, 0)
               /\ UNCHANGED <<server, ops>>
          ELSE /\ ops' = [ops EXCEPT ![FreeSlot] = op]
               /\ modals' = QueryModal(modals, FreeSlot)
               /\ last' = Quiet
               /\ UNCHANGED <<server, selectedApplications, currentStatusFilter, view, fetches>>

\* ------------------------------------------------------------ the network
\* How the fetch of an update request can settle, and whether the backend has
\* applied the update by then: a 2xx answer after applying it, a non-2xx
\* answer without, or a transport failure, before the request reached the
\* backend or after (the answer is lost).
Settlements ==
    {[result |-> "ok", applied |-> TRUE], [result |-> "err", applied |-> FALSE],
     [result |-> "fail", applied |-> FALSE], [result |-> "fail", applied |-> TRUE]}

\* The backend's state once the request of slot i for id has settled as s.
Backend(i, id, s) == IF s.applied THEN [server EXCEPT ![id] = ops[i].status] ELSE server

\* Lines 569-588: the fetch of confirmStatusUpdate settles.  A non-2xx answer
\* leaves the handler at await response.json().
SingleSettles(i, id, s) ==
    /\ UNCHANGED <<focus, announcer, promotion>>
    /\ ops[i].kind = "single"
    /\ id \in ops[i].ids
    /\ Pending(ops[i].reqs[id])
    /\ server' = Backend(i, id, s)
    /\ CASE s.result = "ok" ->
               /\ StatusUpdated(i)
               /\ ops' = [ops EXCEPT ![i] = FreeOp]
         [] s.result = "err" ->
               /\ ops' = [ops EXCEPT ![i].reqs[id] = "err"]
               /\ last' = Quiet
               /\ UNCHANGED <<selectedApplications, currentStatusFilter, view, fetches, modals>>
         [] s.result = "fail" ->
               /\ StatusFailed(i, "confirmStatusUpdate.catch")
               /\ ops' = [ops EXCEPT ![i] = FreeOp]

\* Lines 583-584 and 586-588: the body of the non-2xx response has been read,
\* or could not be parsed; either way one error notification is shown.
SingleErrorBody(i, id, parsed) ==
    /\ UNCHANGED <<focus, announcer, promotion>>
    /\ ops[i].kind = "single"
    /\ id \in ops[i].ids
    /\ ops[i].reqs[id] = "err"
    /\ StatusFailed(i, IF parsed THEN "confirmStatusUpdate.else" ELSE "confirmStatusUpdate.catch")
    /\ ops' = [ops EXCEPT ![i] = FreeOp]
    /\ UNCHANGED server

\* Lines 648-655: one of the fetches of confirmBulkUpdate settles.
BulkSettles(i, id, s) ==
    /\ UNCHANGED <<focus, announcer, promotion>>
    /\ ops[i].kind = "bulk"
    /\ id \in ops[i].ids
    /\ Pending(ops[i].reqs[id])
    /\ server' = Backend(i, id, s)
    /\ LET op == [ops[i] EXCEPT !.reqs[id] = s.result]
           sent == Cardinality(op.ids)
           left == Cardinality(PendingIds(op))
       IN IF op.outcome = "none" /\ PromiseAllRejected(op, id)
          THEN /\ ops' = [ops EXCEPT ![i] = Retire([op EXCEPT !.outcome = "error"])]
               /\ BulkFailed(i, sent, left)
          ELSE IF op.outcome = "none" /\ PromiseAllFulfilled(op)
          THEN /\ ops' = [ops EXCEPT ![i] = Retire([op EXCEPT !.outcome = "success"])]
               /\ BulkUpdated(Release(ModalRemove(modals, i), i), sent, left)
          ELSE /\ ops' = [ops EXCEPT ![i] = Retire(op)]
               /\ last' = Quiet
               /\ UNCHANGED <<selectedApplications, currentStatusFilter, view, fetches, modals>>

Next ==
    \/ switchCompanyTab
    \/ \E f \in BagToSet(fetches), listed \in BOOLEAN : ServeList(f, listed)
    \/ \E f \in BagToSet(fetches) : ListArrives(f)
    \/ \E f \in BagToSet(fetches) : ListFails(f)
    \/ \E appId \in Ids, checked \in BOOLEAN : toggleApplicationSelection(appId, checked)
    \/ \E checked \in BOOLEAN : toggleSelectAll(checked)
    \/ clearSelection
    \/ \E status \in FilterInputs : filterByStatus(status)
    \/ \E appId \in Ids, newStatus \in StatusInputs : updateApplicationStatus(appId, newStatus)
    \/ \E k \in 1..MaxModals : closeModal(k)
    \/ \E k \in 1..MaxModals : confirmStatusUpdate(k)
    \/ bulkUpdateStatus
    \/ \E k \in 1..MaxModals, newStatus \in StatusInputs : confirmBulkUpdate(k, newStatus)
    \/ \E i \in 1..MaxOps, id \in Ids, s \in Settlements : SingleSettles(i, id, s)
    \/ \E i \in 1..MaxOps, id \in Ids, parsed \in BOOLEAN : SingleErrorBody(i, id, parsed)
    \/ \E i \in 1..MaxOps, id \in Ids, s \in Settlements : BulkSettles(i, id, s)

Spec == Init /\ [][Next]_vars

\* ============================================================== properties
\* One more list fetch has been issued by the step and the view shows the
\* loading placeholder.
RefreshIssued ==
    /\ view' = BlankView("loading")
    /\ fetches' = fetches (+) SetToBag({SentFetch})

\* The dialogs of the document, whoever holds them.
Dialogs(doc) ==
    [k \in 1..Len(doc) |->
        [kind |-> doc[k].kind, appId |-> doc[k].appId, newStatus |-> doc[k].newStatus]]

BulkEnds == {"confirmBulkUpdate.then", "confirmBulkUpdate.catch"}

SingleEnds == {"confirmStatusUpdate.ok", "confirmStatusUpdate.else", "confirmStatusUpdate.catch"}

\* C1: a bulk update reports no outcome, success or failure, while one of
\* the requests it dispatched is still in flight.
C1_NoOutcomeWhilePending ==
    \A i \in 1..MaxOps :
        (ops[i].kind = "bulk" /\ ops[i].outcome # "none") => PendingIds(ops[i]) = {}

\* C2: a confirmed bulk update dispatches exactly one request per selected
\* id (N requests for N ids) and nothing else, and the step in which a bulk
\* update issues its refresh leaves none of its requests in flight.
C2_DispatchAndJoin ==
    [][\A i \in 1..MaxOps :
          /\ (ops[i].kind = "free" /\ ops'[i].kind = "bulk") =>
                /\ ops'[i].ids = selectedApplications
                /\ {id \in Ids : ops'[i].reqs[id] = "sent"} = selectedApplications
                /\ Cardinality({id \in Ids : ops'[i].reqs[id] # "-"}) = Cardinality(selectedApplications)
                /\ \A j \in 1..MaxOps \ {i} : ops'[j] = ops[j]
          /\ (ops[i].kind = "bulk" /\ ops'[i] # ops[i] /\ RefreshIssued) =>
                /\ ops[i].outcome = "none"
                /\ ops'[i] = FreeOp
                /\ \A id \in ops[i].ids : ~Pending(ops[i].reqs[id]) \/ ops'[i].reqs[id] = "-"
                /\ Cardinality(PendingIds(ops[i])) = 1
                /\ last'.call = "confirmBulkUpdate.then" /\ last'.n = 0
       ]_vars

\* C2's case: a bulk update of two selected records whose requests settled
\* in a mixed way (one answered 2xx, one non-2xx) has issued its refresh.
C2_Witness ==
    /\ last.call = "confirmBulkUpdate.then"
    /\ last.sent = 2
    /\ last.n = 0
    /\ view.kind = "loading"
    /\ \E id \in Ids : server[id] = "pending"
    /\ \E id \in Ids : server[id] = "shortlisted"

\* C3: once every request of a bulk update has completed, the Selection Set
\* is empty and a list refresh has been issued, also when a request failed.
C3_ClearedAndRefreshed ==
    (last.call \in BulkEnds /\ last.n = 0) =>
        /\ selectedApplications = {}
        /\ view.kind = "loading"
        /\ fetches # EmptyBag

\* C4: every selected id belongs to a row of the rendered (filtered) table.
C4_SelectionIsVisible ==
    view.kind = "table" => selectedApplications \subseteq RowIds(view.rows)

\* C5: filterByStatus(tag) always leaves the filter at tag and the Selection
\* Set empty, whatever was selected and whatever the filter was.
C5_FilterClearsSelection ==
    [][\A tag \in FilterInputs :
          filterByStatus(tag) => (currentStatusFilter' = tag /\ selectedApplications' = {})
       ]_vars

\* C5's case: filterByStatus has run on a non-empty selection.
C5_Witness ==
    /\ last.call = "filterByStatus"
    /\ last.n > 0
    /\ currentStatusFilter = "pending"
    /\ selectedApplications = {}

C7_FailureLeavesUiUntouched ==
    [][\A i \in 1..MaxOps :
          (ops[i].kind = "single" /\ ops'[i] # ops[i] /\ last'.call # "confirmStatusUpdate.ok") =>
             /\ selectedApplications' = selectedApplications
             /\ currentStatusFilter' = currentStatusFilter
             /\ view' = view
             /\ fetches' = fetches
             /\ Dialogs(modals') = Dialogs(modals)
             /\ IF ops'[i] = FreeOp
                THEN /\ last'.call \in {"confirmStatusUpdate.else", "confirmStatusUpdate.catch"}
                     /\ last'.notes = <<Note("error", 0)>>
                ELSE /\ ops'[i].reqs = [ops[i].reqs EXCEPT ![CHOOSE id \in ops[i].ids : TRUE] = "err"]
                     /\ last'.notes = <<>>
      ]_vars

\* C7's case: a single update has just failed with a non-2xx answer while a
\* record was selected, the table was rendered and its dialog is still open.
C7_Witness ==
    /\ last.call = "confirmStatusUpdate.else"
    /\ selectedApplications # {}
    /\ view.kind = "table"
    /\ \E k \in 1..Len(modals) : modals[k].kind = "status"

\* C8: bulkUpdateStatus on an empty Selection Set shows a warning, opens no
\* dialog and dispatches nothing; and no bulk update that dispatched zero
\* requests shows a success notification.
C8_NoSuccessWithoutRequests ==
    [][/\ (bulkUpdateStatus /\ selectedApplications = {}) =>
             /\ last'.notes = <<Note("warning", 0)>>
             /\ modals' = modals
             /\ ops' = ops
       /\ (last'.call = "confirmBulkUpdate.then") => last'.sent > 0
      ]_vars

\* C9: opening the confirmation dialog and closing it dispatch nothing; a
\* request is dispatched only by a confirmation, and a confirmed single
\* update dispatches exactly one, for the id and the status of a status
\* dialog of the document; the confirmation of dialog k dispatches for the
\* id and the status that dialog k carries.
C9_OneRequestPerConfirmation ==
    [][/\ (Len(modals') # Len(modals) /\ last' = Quiet) => ops' = ops
       /\ \A k \in 1..Len(modals) :
             confirmStatusUpdate(k) =>
                \E i \in 1..MaxOps :
                   /\ ops[i].kind = "free" /\ ops'[i].kind = "single"
                   /\ ops'[i].ids = {modals[k].appId}
                   /\ ops'[i].status = modals[k].newStatus
                   /\ ops'[i].reqs = Dispatch({modals[k].appId})
       /\ \A i \in 1..MaxOps :
             /\ (\E id \in Ids : ops'[i].reqs[id] = "sent" /\ ops[i].reqs[id] # "sent") =>
                   /\ ops[i].kind = "free"
                   /\ \A j \in 1..MaxOps \ {i} : ops'[j] = ops[j]
                   /\ Dialogs(modals') = Dialogs(modals)
             /\ (ops[i].kind = "free" /\ ops'[i].kind = "single") =>
                   /\ \E k \in 1..Len(modals) :
                         /\ modals[k].kind = "status"
                         /\ confirmStatusUpdate(k)
                         /\ ops'[i].ids = {modals[k].appId}
                         /\ ops'[i].status = modals[k].newStatus
                   /\ Cardinality({id \in Ids : ops'[i].reqs[id] # "-"}) = 1
                   /\ \A id \in ops'[i].ids : ops'[i].reqs[id] = "sent"
      ]_vars

\* C9's case: with two status dialogs open, for different records, the
\* second has been confirmed and its one request is in flight.
C9_Witness ==
    /\ Len(modals) = 2
    /\ modals[1].kind = "status" /\ modals[2].kind = "status"
    /\ modals[1].appId # modals[2].appId
    /\ \E i \in 1..MaxOps :
          /\ ops[i].kind = "single"
          /\ ops[i].ids = {modals[2].appId}
          /\ ops[i].reqs[modals[2].appId] = "sent"

\* ------------------------- every request is answered, and answered well
OkSettlement == [result |-> "ok", applied |-> TRUE]

NextAllOk ==
    \/ switchCompanyTab
    \/ \E f \in BagToSet(fetches) : ServeList(f, TRUE)
    \/ \E f \in BagToSet(fetches) : ListArrives(f)
    \/ \E appId \in Ids, checked \in BOOLEAN : toggleApplicationSelection(appId, checked)
    \/ \E checked \in BOOLEAN : toggleSelectAll(checked)
    \/ clearSelection
    \/ \E status \in FilterInputs : filterByStatus(status)
    \/ \E appId \in Ids, newStatus \in StatusInputs : updateApplicationStatus(appId, newStatus)
    \/ \E k \in 1..MaxModals : closeModal(k)
    \/ \E k \in 1..MaxModals : confirmStatusUpdate(k)
    \/ bulkUpdateStatus
    \/ \E k \in 1..MaxModals, newStatus \in StatusInputs : confirmBulkUpdate(k, newStatus)
    \/ \E i \in 1..MaxOps, id \in Ids : SingleSettles(i, id, OkSettlement)
    \/ \E i \in 1..MaxOps, id \in Ids : BulkSettles(i, id, OkSettlement)

\* The behaviours in which no request, list or update, fails or is refused.
SpecAllOk == Init /\ [][NextAllOk]_vars

\* C10: once an update has succeeded and no list fetch and no update request
\* is outstanding, every rendered row shows the backend's current status.
C10_DisplayedIsFresh ==
    (/\ fetches = EmptyBag
     /\ FreeSlots = 1..MaxOps
     /\ view.kind = "table"
     /\ \E id \in Ids : server[id] # "pending")
    => \A k \in 1..Len(view.rows) : view.rows[k].status = server[view.rows[k].id]

\* C11: in a rendered table the select-all checkbox is checked exactly when
\* there is a visible row and every visible row's id is selected.
C11_SelectAllReflectsVisible ==
    view.kind = "table" =>
        (view.selectAll <=>
            (Len(view.rows) > 0 /\ RowIds(view.rows) \subseteq selectedApplications))

\* C13: toggleSelectAll(included) gives every rendered row id the membership
\* included and leaves the membership of every other id as it was.
C13_SelectAllFrame ==
    [][\A included \in BOOLEAN :
          toggleSelectAll(included) =>
             /\ \A id \in RowIds(view.rows) : (id \in selectedApplications') <=> included
             /\ \A id \in Ids \ RowIds(view.rows) :
                   (id \in selectedApplications') <=> (id \in selectedApplications)
             /\ selectedApplications' =
                   IF included THEN selectedApplications \cup RowIds(view.rows)
                               ELSE selectedApplications \ RowIds(view.rows)
      ]_vars

\* C13's case: select-all has just been unticked while a selected record was
\* not among the rendered rows (its status left the filtered view); that
\* record is still selected, the rendered one is not.
C13_Witness ==
    /\ last.call = "toggleSelectAll"
    /\ currentStatusFilter = "pending"
    /\ \E id \in selectedApplications : server[id] = "shortlisted"
    /\ \E id \in Ids \ selectedApplications : server[id] = "pending"

\* The place of the record with this id in a fetched list.
Position(applications, id) == CHOOSE j \in 1..Len(applications) : applications[j].id = id

\* C14: the rows rendered from a fetched list are the list itself under the
\* filter "all"; under any other filter they are exactly the records whose
\* status is the filter tag, each once, in the order of the fetched list.
C14_VisibleRecords ==
    [][\A f \in BagToSet(fetches) :
          (ListArrives(f) /\ view'.kind = "table") =>
             LET rows == view'.rows
                 tag == currentStatusFilter
                 matching == {j \in 1..Len(f.apps) : f.apps[j].status = tag}
             IN IF tag = "all"
                THEN rows = f.apps
                ELSE /\ Len(rows) = Cardinality(matching)
                     /\ \A k \in 1..Len(rows) : rows[k].status = tag
                     /\ \A j \in matching : \E k \in 1..Len(rows) : rows[k] = f.apps[j]
                     /\ \A k1, k2 \in 1..Len(rows) :
                           k1 < k2 => Position(f.apps, rows[k1].id) < Position(f.apps, rows[k2].id)
      ]_vars

\* C14's case: under the filter "pending" a list holding a shortlisted and a
\* pending record has been rendered as the one pending row.
C14_Witness ==
    /\ view.kind = "table"
    /\ view.tab = "pending"
    /\ Len(view.rows) = 1
    /\ \E id \in Ids : server[id] = "shortlisted" /\ id \notin RowIds(view.rows)

\* C17: the filter is "all" until something is loaded, is always one of the
\* six tags, and every step that changes it is a filterByStatus.
C17_FilterFrame ==
    [][/\ view = BlankView("none") => currentStatusFilter = "all"
       /\ currentStatusFilter \in FilterTags
       /\ currentStatusFilter' \in FilterTags
       /\ currentStatusFilter' # currentStatusFilter =>
             \E tag \in FilterTags : filterByStatus(tag)
      ]_vars

\* C17's case: a bulk update has completed under the filter "pending", which
\* is still the filter.
C17_Witness ==
    /\ last.call = "confirmBulkUpdate.then"
    /\ last.sent > 0
    /\ currentStatusFilter = "pending"

\* The number of records of a fetched list that carry this status.
Carrying(applications, status) ==
    Cardinality({j \in 1..Len(applications) : applications[j].status = status})

\* C15: the counts rendered on the filter tabs are those of the whole fetched
\* list, and they are the counts the same list would be rendered with under
\* every other filter tag.
C15_CountsIgnoreFilter ==
    [][\A f \in BagToSet(fetches) :
          (ListArrives(f) /\ view'.kind = "table") =>
             /\ view'.stats.total = Len(f.apps)
             /\ \A status \in Statuses : view'.stats[status] = Carrying(f.apps, status)
             /\ \A tag \in FilterTags :
                   TableView(f.apps, tag, selectedApplications).stats = view'.stats
      ]_vars

\* C15's case: under the filter "pending" one row is visible and the tabs
\* count the shortlisted record that is not.
C15_Witness ==
    /\ view.kind = "table"
    /\ view.tab = "pending"
    /\ Len(view.rows) = 1
    /\ view.stats.total = 2
    /\ view.stats.shortlisted = 1

\* ------------------------------ lists holding a status outside the five
\* The status values of the application status API include values the
\* dashboard does not enumerate; "applied" is one.
ListedStatuses == {"pending", "applied"}

InitListed ==
    /\ server \in [Ids -> ListedStatuses]
    /\ selectedApplications = {}
    /\ currentStatusFilter = "all"
    /\ view = BlankView("none")
    /\ fetches = EmptyBag
    /\ modals = <<>>
    /\ ops = [i \in 1..MaxOps |-> FreeOp]
    /\ last = Quiet
    /\ InitFocus
    /\ InitAnnouncer
    /\ InitPromotion

\* The list is loaded, filtered and rendered; nothing is updated.
NextList ==
    \/ switchCompanyTab
    \/ \E f \in BagToSet(fetches), listed \in BOOLEAN : ServeList(f, listed)
    \/ \E f \in BagToSet(fetches) : ListArrives(f)
    \/ \E f \in BagToSet(fetches) : ListFails(f)
    \/ \E status \in FilterInputs : filterByStatus(status)

SpecList == InitListed /\ [][NextList]_vars

\* C16: the five per-status counts rendered on the tabs add up to the total
\* count, whatever statuses the fetched records carry.
C16_CountsPartition ==
    view.kind = "table" =>
        view.stats.pending + view.stats.shortlisted + view.stats.interviewed
            + view.stats.hired + view.stats.rejected = view.stats.total

\* --------------------- the Selection Set operations called in any order
\* toggleApplicationSelection, toggleSelectAll and clearSelection are global
\* functions: here they are called with any arguments at any moment, not only
\* from the controls of a rendered table.  The count of the step is the size
\* of the Selection Set the call found.
toggleApplicationSelectionCalled(appId, checked) ==
    /\ UNCHANGED <<focus, announcer, promotion>>
    /\ CanLoad
    /\ selectedApplications' = ToggleSelection(selectedApplications, appId, checked)
    /\ LoadCompanyApplications
    /\ last' = Last("toggleApplicationSelection", Cardinality(selectedApplications), 0, <<>>)
    /\ UNCHANGED <<server, currentStatusFilter, modals, ops>>

\* Lines 482-495, with the row checkboxes the document has at that moment
\* (none unless the table is rendered).
toggleSelectAllCalled(checked) ==
    /\ UNCHANGED <<focus, announcer, promotion>>
    /\ CanLoad
    /\ selectedApplications' =
          IF checked THEN selectedApplications \cup RowIds(view.rows)
                     ELSE selectedApplications \ RowIds(view.rows)
    /\ LoadCompanyApplications
    /\ last' = Last("toggleSelectAll", Cardinality(selectedApplications), 0, <<>>)
    /\ UNCHANGED <<server, currentStatusFilter, modals, ops>>

clearSelectionCalled ==
    /\ UNCHANGED <<focus, announcer, promotion>>
    /\ CanLoad
    /\ selectedApplications' = {}
    /\ LoadCompanyApplications
    /\ last' = Last("clearSelection", Cardinality(selectedApplications), 0, <<>>)
    /\ UNCHANGED <<server, currentStatusFilter, modals, ops>>

NextSelection ==
    \/ \E appId \in Ids, checked \in BOOLEAN : toggleApplicationSelectionCalled(appId, checked)
    \/ \E checked \in BOOLEAN : toggleSelectAllCalled(checked)
    \/ clearSelectionCalled
    \/ \E f \in BagToSet(fetches), listed \in BOOLEAN : ServeList(f, listed)
    \/ \E f \in BagToSet(fetches) : ListArrives(f)
    \/ \E f \in BagToSet(fetches) : ListFails(f)

SpecSelection == Init /\ [][NextSelection]_vars

\* C12: each call gives the ids it names the membership it was called with
\* and leaves every other id as it was, so the set holds exactly the ids
\* whose latest operation included them; the size counts each member once;
\* a toggle that repeats the membership an id already has changes nothing.
C12_SelectionFollowsCalls ==
    [][/\ \A appId \in Ids, checked \in BOOLEAN :
             toggleApplicationSelectionCalled(appId, checked) =>
                /\ (appId \in selectedApplications') <=> checked
                /\ \A id \in Ids \ {appId} :
                      (id \in selectedApplications') <=> (id \in selectedApplications)
                /\ Cardinality(selectedApplications') =
                      Cardinality(selectedApplications \ {appId}) + (IF checked THEN 1 ELSE 0)
                /\ ((appId \in selectedApplications) <=> checked) =>
                      selectedApplications' = selectedApplications
       /\ \A included \in BOOLEAN :
             toggleSelectAllCalled(included) =>
                /\ \A id \in RowIds(view.rows) : (id \in selectedApplications') <=> included
                /\ \A id \in Ids \ RowIds(view.rows) :
                      (id \in selectedApplications') <=> (id \in selectedApplications)
       /\ clearSelectionCalled => selectedApplications' = {}
       /\ selectedApplications' # selectedApplications =>
             \/ \E appId \in Ids, checked \in BOOLEAN :
                   toggleApplicationSelectionCalled(appId, checked)
             \/ \E included \in BOOLEAN : toggleSelectAllCalled(included)
             \/ clearSelectionCalled
      ]_vars

\* C12's case: a toggle was called on a Selection Set of two ids and the set
\* still has its two ids: the call repeated an inclusion (after a select-all
\* had included both).
C12_Witness ==
    /\ last.call = "toggleApplicationSelection"
    /\ last.n = 2
    /\ selectedApplications = Ids

\* ------------------- bulk updates under the filter "pending", all answered
\* The page as filterByStatus('pending') leaves it: the filter set, nothing
\* selected, the list being fetched.
InitEndToEnd ==
    /\ server \in [Ids -> InitialStatuses]
    /\ selectedApplications = {}
    /\ currentStatusFilter = "pending"
    /\ view = BlankView("loading")
    /\ fetches = SetToBag({SentFetch})
    /\ modals = <<>>
    /\ ops = [i \in 1..MaxOps |-> FreeOp]
    /\ last = Last("filterByStatus", 0, 0, <<>>)
    /\ InitFocus
    /\ InitAnnouncer
    /\ InitPromotion

\* Selection and bulk update only; every request is answered, and answered
\* well; the filter is not touched again.
NextEndToEnd ==
    \/ switchCompanyTab
    \/ \E f \in BagToSet(fetches) : ServeList(f, TRUE)
    \/ \E f \in BagToSet(fetches) : ListArrives(f)
    \/ \E appId \in Ids, checked \in BOOLEAN : toggleApplicationSelection(appId, checked)
    \/ \E checked \in BOOLEAN : toggleSelectAll(checked)
    \/ clearSelection
    \/ \E k \in 1..MaxModals : closeModal(k)
    \/ bulkUpdateStatus
    \/ \E k \in 1..MaxModals, newStatus \in StatusInputs : confirmBulkUpdate(k, newStatus)
    \/ \E i \in 1..MaxOps, id \in Ids : BulkSettles(i, id, OkSettlement)

SpecEndToEnd == InitEndToEnd /\ [][NextEndToEnd]_vars

\* C18: once every record that was visible under "pending" has been moved
\* out of it by bulk updates that succeeded, and every list fetch has
\* completed, the filter is still "pending", the Selection Set is empty and
\* no record is visible.
C18_UpdatedRecordsLeaveTheView ==
    (/\ fetches = EmptyBag
     /\ FreeSlots = 1..MaxOps
     /\ view.kind = "table"
     /\ \A id \in Ids : server[id] # "pending")
    => /\ currentStatusFilter = "pending"
       /\ selectedApplications = {}
       /\ view.rows = <<>>

\* C19: the step that ends a failed update (a single update answered non-2xx
\* or failed in transport; a bulk update one of whose requests was answered
\* non-2xx or failed in transport) removes no dialog and leaves the Selection
\* Set as it is, so that the same confirmation can be given again.
C19_RetryAfterFailure ==
    [][\A i \in 1..MaxOps :
          /\ (ops[i].kind = "single" /\ ops'[i] = FreeOp /\ last'.call # "confirmStatusUpdate.ok") =>
                /\ selectedApplications' = selectedApplications
                /\ Dialogs(modals') = Dialogs(modals)
          /\ (/\ ops[i].kind = "bulk" /\ ops[i].outcome = "none"
              /\ last'.call \in BulkEnds
              /\ \/ last'.call = "confirmBulkUpdate.catch"
                 \/ \E id \in ops[i].ids : ops[i].reqs[id] = "err") =>
                /\ selectedApplications' = selectedApplications
                /\ Dialogs(modals') = Dialogs(modals)
      ]_vars

\* ======================================================= focus management
\* a11y.js, setupFocusManagement and trapFocusInModal.  A modal element is
\* appended to document.body with n focusable descendants (those the selector
\* of lines 107-109 matches), all of them reachable with the Tab key, in document
\* order.
InDocument(doc, m) == \E k \in 1..Len(doc) : doc[k].el = m

Focusables(doc, m) == (CHOOSE e \in {doc[k] : k \in 1..Len(doc)} : e.el = m).n

\* The modal elements of doc that are rendered: those not in hid.
Shown(doc, hid) == SelectSeq(doc, LAMBDA e : e.el \notin hid)

\* The browser's sequential focus navigation order: the focusable elements of
\* the page, then those of each modal, in document order.
RECURSIVE ModalOrder(_)
ModalOrder(doc) ==
    IF doc = <<>>
    THEN <<>>
    ELSE [at \in 1..Head(doc).n |-> El(Head(doc).el, at)] \o ModalOrder(Tail(doc))

TabOrder(doc) == [at \in 1..MaxPage |-> El(0, at)] \o ModalOrder(doc)

Place(order, e) == CHOOSE k \in 1..Len(order) : order[k] = e

\* Where Tab (Shift+Tab) moves the focus when no handler prevents it: to the
\* next (previous) element of the order, around its ends.
DefaultTab(doc, e, shift) ==
    LET order == TabOrder(doc) IN
    IF \A k \in 1..Len(order) : order[k] # e
    THEN IF shift THEN order[Len(order)] ELSE order[1]
    ELSE LET k == Place(order, e) IN
         IF shift THEN order[IF k = 1 THEN Len(order) ELSE k - 1]
                  ELSE order[IF k = Len(order) THEN 1 ELSE k + 1]

\* element.focus(): only an element that is in the document, and rendered,
\* takes the focus.
Focus(doc, e, active) ==
    IF e.at >= 1 /\ (e.owner = 0 \/ InDocument(doc, e.owner)) THEN e ELSE active

\* trapFocusInModal reading document.activeElement after it has moved the
\* focus (line 117 after line 120).
trapFocusInModalStoresAfterFocus(m, n) ==
    IF n = 0
    THEN UNCHANGED <<traps, activeElement>>
    ELSE /\ traps' = [traps EXCEPT ![m] =
                         [installed |-> TRUE, first |-> El(m, 1), last |-> El(m, n),
                          previouslyFocused |-> El(m, 1)]]
         /\ activeElement' = El(m, 1)

\* trapFocusInModal without the early return of line 111: the handlers are
\* installed whatever the modal contains.
trapFocusInModalWithoutGuard(m, n) ==
    /\ traps' = [traps EXCEPT ![m] =
                    [installed |-> TRUE, first |-> El(m, 1), last |-> El(m, n),
                     previouslyFocused |-> activeElement]]
    /\ activeElement' = IF n = 0 THEN activeElement ELSE El(m, 1)

\* Lines 106-132 and 144: trapFocusInModal(modal) for a modal with n
\* focusable descendants.
trapFocusInModal(m, n) ==
    IF n = 0
    THEN UNCHANGED <<traps, activeElement>>
    ELSE /\ traps' = [traps EXCEPT ![m] =
                         [installed |-> TRUE, first |-> El(m, 1), last |-> El(m, n),
                          previouslyFocused |-> activeElement]]
         /\ activeElement' = El(m, 1)

\* Lines 96-104: a .modal element is inserted (DOMNodeInserted).
ModalInserted(m, n) ==
    /\ ~InDocument(body, m)
    /\ body' = Append(body, [el |-> m, n |-> n])
    /\ trapFocusInModal(m, n)
    /\ UNCHANGED hidden
    /\ last' = Last("trapFocusInModal", n, 0, <<>>)
    /\ UNCHANGED <<dashboard, announcer, promotion>>

\* The key handler that wraps in one direction only.
TrapKeydownForwardOnly(trap, shift, active, default) ==
    IF ~shift /\ active = trap.last THEN trap.first ELSE default

\* Lines 122-132: the keydown listener of a trapped modal, for the Tab key;
\* default is where the browser moves the focus when the listener does not
\* prevent it.
TrapKeydown(trap, shift, active, default) ==
    IF shift /\ active = trap.first
    THEN trap.last
    ELSE IF ~shift /\ active = trap.last
    THEN trap.first
    ELSE default

\* Tab or Shift+Tab is pressed: the keydown reaches the listener of the modal
\* that contains the active element, if that modal has one.
PressTab(shift) ==
    /\ LET m == activeElement.owner
           default == DefaultTab(Shown(body, hidden), activeElement, shift)
       IN activeElement' =
             IF m # 0 /\ traps[m].installed
             THEN TrapKeydown(traps[m], shift, activeElement, default)
             ELSE default
    /\ last' = Last(IF shift THEN "Shift+Tab" ELSE "Tab", activeElement.at, 0, <<>>)
    /\ UNCHANGED <<body, traps, hidden>>
    /\ UNCHANGED <<dashboard, announcer, promotion>>

\* The user puts the focus on an element with the pointer.
Click(e) ==
    /\ \E k \in 1..Len(TabOrder(Shown(body, hidden))) : TabOrder(Shown(body, hidden))[k] = e
    /\ activeElement' = e
    /\ last' = Last("click", 0, 0, <<>>)
    /\ UNCHANGED <<body, traps, hidden>>
    /\ UNCHANGED <<dashboard, announcer, promotion>>

\* A reference to an element that has left the document with modal m: calling
\* focus() on it does nothing, as on document.body.
Detach(e, m) == IF e.owner = m THEN BodyElement ELSE e

\* Lines 135-142, the MutationObserver callback of a trap whose modal has
\* left the document: the element stored at trap entry is given the focus.
\* doc and hid are the document by then, active its active element.
RestoreFocus(trap, doc, hid, active) ==
    IF trap.installed
    THEN Focus(Shown(doc, hid), trap.previouslyFocused, active)
    ELSE active

\* The Close, x and Cancel buttons of a modal (company.js:546, 556, 683):
\* this.closest('.modal').remove().  The active element goes with the modal
\* if it is inside.  The MutationObserver of the modal's trap then finds the
\* modal gone, focuses the element stored at trap entry and disconnects.
ModalRemoved(m) ==
    /\ InDocument(body, m)
    /\ m \notin hidden
    /\ body' = SelectSeq(body, LAMBDA e : e.el # m)
    /\ UNCHANGED hidden
    /\ activeElement' = RestoreFocus(traps[m], body', hidden', Detach(activeElement, m))
    /\ traps' = [t \in ModalEls |->
                    IF t = m
                    THEN NoTrap
                    ELSE [traps[t] EXCEPT !.previouslyFocused = Detach(@, m)]]
    /\ last' = Last("modal.remove", 0, 0, <<>>)
    /\ UNCHANGED <<dashboard, announcer, promotion>>

\* The last focusable element of the page is inside #companyApplications (the
\* status select of a row, a header button); those before it are outside
\* (the navigation).
InContainer(e) == e.owner = 0 /\ e.at = MaxPage

\* container.innerHTML = ... (company.js:289, 300, 328, 461): the elements
\* inside #companyApplications leave the document, and a reference to one of
\* them is a reference to a detached element.
Replaced(e) == IF InContainer(e) THEN BodyElement ELSE e

\* loadCompanyApplications replaces the content of #companyApplications, at
\* its start (line 289) and when the response has been read.
ContainerRendered ==
    /\ activeElement' = Replaced(activeElement)
    /\ traps' = [t \in ModalEls |-> [traps[t] EXCEPT !.previouslyFocused = Replaced(@)]]
    /\ last' = Last("loadCompanyApplications", 0, 0, <<>>)
    /\ UNCHANGED <<body, hidden>>
    /\ UNCHANGED <<dashboard, announcer, promotion>>

\* company.js:580-581 and 651-652, the end of an update that succeeded:
\* modal.remove() of the first .modal of the document, hidden or not, then
\* loadCompanyApplications(), whose line 289 runs before the handler
\* returns.  The MutationObserver callback of the modal's trap is a microtask
\* and runs after both.
ModalRemovedThenReload(m) ==
    /\ body # <<>>
    /\ m = Head(body).el
    /\ body' = Tail(body)
    /\ hidden' = hidden \ {m}
    /\ activeElement' =
          RestoreFocus([traps[m] EXCEPT !.previouslyFocused = Replaced(@)], body', hidden',
                       Replaced(Detach(activeElement, m)))
    /\ traps' = [t \in ModalEls |->
                    IF t = m
                    THEN NoTrap
                    ELSE [traps[t] EXCEPT !.previouslyFocused = Replaced(Detach(@, m))]]
    /\ last' = Last("modal.remove", 1, 0, <<>>)
    /\ UNCHANGED <<dashboard, announcer, promotion>>

\* a11y.js:49-52 and 147-152: Escape is pressed; closeOpenElements sets every
\* .modal of the document to display none.  No modal is removed.  An active
\* element that is no longer rendered loses the focus to document.body (the
\* focus fixup of the HTML standard).
closeOpenElements ==
    /\ hidden' = hidden \cup {body[k].el : k \in 1..Len(body)}
    /\ modals' = [k \in 1..Len(modals) |-> [modals[k] EXCEPT !.hidden = TRUE]]
    /\ activeElement' = IF activeElement.owner # 0 THEN BodyElement ELSE activeElement
    /\ last' = Last("closeOpenElements", Len(body) + Len(modals), 0, <<>>)
    /\ UNCHANGED <<body, traps>>
    /\ UNCHANGED <<server, selectedApplications, currentStatusFilter, view, fetches, ops>>
    /\ UNCHANGED <<announcer, promotion>>

NextFocus ==
    \/ \E m \in ModalEls, n \in 0..MaxFocusable : ModalInserted(m, n)
    \/ \E m \in ModalEls : ModalRemoved(m)
    \/ \E m \in ModalEls : ModalRemovedThenReload(m)
    \/ ContainerRendered
    \/ closeOpenElements
    \/ \E shift \in BOOLEAN : PressTab(shift)
    \/ \E m \in 0..MaxTrapped, at \in 1..MaxFocusable : Click(El(m, at))

SpecFocus == Init /\ [][NextFocus]_vars

\* C20: a Tab or Shift+Tab pressed while the active element is inside a
\* modal with a trap installed leaves the focus on a focusable descendant of
\* that modal: the next one, or the previous one for Shift+Tab, going from
\* the last to the first and from the first to the last.
C20_FocusStaysInModal ==
    [][\A shift \in BOOLEAN :
          PressTab(shift) =>
             LET m == activeElement.owner IN
             (m # 0 /\ traps[m].installed) =>
                LET n == Focusables(body, m)
                    at == activeElement.at
                IN /\ activeElement'.owner = m
                   /\ activeElement'.at \in 1..n
                   /\ activeElement'.at =
                         IF shift THEN (IF at = 1 THEN n ELSE at - 1)
                                  ELSE (IF at = n THEN 1 ELSE at + 1)
      ]_vars

\* C20's case: Tab was pressed on the last focusable element of a trapped
\* modal that another modal follows in the document, and the focus is on the
\* first element of the same modal.
C20_Witness ==
    /\ last.call = "Tab"
    /\ last.n = MaxFocusable
    /\ Len(body) = 2
    /\ body[2].n > 0
    /\ traps[body[1].el].installed
    /\ activeElement = El(body[1].el, 1)

\* C21: when a modal with a trap installed leaves the document, and the
\* element that had the focus when the trap was entered was an element of the
\* page or of another modal, the focus is on that element afterwards and the
\* trap of the modal, its removal watch included, is gone.
C21_FocusRestoredOnRemoval ==
    [][\A m \in ModalEls :
          (/\ InDocument(body, m)
           /\ ~InDocument(body', m)
           /\ traps[m].installed
           /\ traps[m].previouslyFocused # BodyElement) =>
             /\ activeElement' = traps[m].previouslyFocused
             /\ traps'[m] = NoTrap
      ]_vars

\* C22: the insertion of a modal element with at least one focusable
\* descendant installs the trap of that modal, which had none: the trap
\* stores the element that was active just before the insertion, and the
\* first focusable descendant of the modal becomes the active element.
C22_InsertionTraps ==
    [][\A m \in ModalEls, n \in 1..MaxFocusable :
          ModalInserted(m, n) =>
             /\ traps[m] = NoTrap
             /\ traps'[m].installed
             /\ traps'[m].previouslyFocused = activeElement
             /\ activeElement' = El(m, 1)
      ]_vars

\* C22's case: a modal with focusable descendants has just been inserted
\* while an element of the page had the focus; its trap stores that element
\* and the focus is on the modal's first focusable descendant.
C22_Witness ==
    /\ last.call = "trapFocusInModal"
    /\ last.n >= 1
    /\ \E m \in ModalEls :
          /\ InDocument(body, m)
          /\ traps[m].installed
          /\ traps[m].previouslyFocused = El(0, MaxPage)
          /\ activeElement = El(m, 1)

\* C23: the insertion of a modal element without a focusable descendant
\* leaves the active element and every trap as they are; no trap is
\* installed on the modal.
C23_NothingToTrap ==
    [][\A m \in ModalEls :
          ModalInserted(m, 0) =>
             /\ activeElement' = activeElement
             /\ traps' = traps
             /\ ~traps'[m].installed
      ]_vars

\* C23's case: a modal without a focusable descendant has just been inserted
\* while an element of the page had the focus, which it still has, and the
\* modal has no trap.
C23_Witness ==
    /\ last.call = "trapFocusInModal"
    /\ last.n = 0
    /\ body # <<>>
    /\ body[Len(body)].n = 0
    /\ ~traps[body[Len(body)].el].installed
    /\ activeElement = El(0, 1)

\* C30: Escape pressed while a modal with a trap installed is shown removes
\* the trap of that modal, its removal watch included, and puts the focus on
\* the element stored when the trap was entered, if the focus was inside the
\* modal.
C30_EscapeEndsTheTrap ==
    [][closeOpenElements =>
          \A m \in ModalEls :
             (InDocument(body, m) /\ m \notin hidden /\ traps[m].installed) =>
                /\ traps'[m] = NoTrap
                /\ activeElement.owner = m => activeElement' = traps[m].previouslyFocused
      ]_vars

\* =============================================================== announcer
\* a11y.js, setupLiveRegions and announce.
MessageInputs == {"X", "Y"}

\* "off" stands for every priority that is not "assertive", the default of
\* line 186 included.
PriorityInputs == {"polite", "assertive", "off"}

\* Lines 166-184: the regions are created unless the page already has an
\* element with an aria-live attribute; without them announce finds no
\* region (line 190) and does nothing.
InitAnnounce ==
    /\ server \in [Ids -> InitialStatuses]
    /\ selectedApplications = {}
    /\ currentStatusFilter = "all"
    /\ view = BlankView("none")
    /\ fetches = EmptyBag
    /\ modals = <<>>
    /\ ops = [i \in 1..MaxOps |-> FreeOp]
    /\ last = Quiet
    /\ InitFocus
    /\ InitPromotion
    /\ liveRegions \in {[r \in Regions |-> ""], [r \in {} |-> ""]}
    /\ timers = <<>>
    /\ announced = [r \in Regions |-> ""]

\* The region the specification gives a priority: the assertive one for
\* "assertive", the polite one otherwise.
Matching(priority) == IF priority = "assertive" THEN AssertiveRegion ELSE PoliteRegion

\* A regionId that does not look at the priority.
RegionIdAlwaysPolite(priority) == PoliteRegion

\* Line 187.
RegionId(priority) ==
    IF priority = "assertive" THEN "live-region-assertive" ELSE "live-region-polite"

\* Lines 186-197: announce(message, priority).  The region is cleared and
\* the write of the message is left to a timer.
announce(message, priority) ==
    /\ Len(timers) < MaxTimers
    /\ LET regionId == RegionId(priority) IN
       IF regionId \in DOMAIN liveRegions
       THEN /\ liveRegions' = [liveRegions EXCEPT ![regionId] = ""]
            /\ timers' = Append(timers, [region |-> regionId, message |-> message])
       ELSE UNCHANGED <<liveRegions, timers>>
    /\ announced' = [announced EXCEPT ![Matching(priority)] = message]
    /\ last' = Last("announce", 0, 0, <<>>)
    /\ UNCHANGED <<dashboard, focus, promotion>>

\* Lines 193-195: the oldest timer runs; all of them wait the same 100 ms,
\* so they run in the order they were set.
TimerFires ==
    /\ timers # <<>>
    /\ liveRegions' = [liveRegions EXCEPT ![Head(timers).region] = Head(timers).message]
    /\ timers' = Tail(timers)
    /\ last' = Last("setTimeout", 0, 0, <<>>)
    /\ UNCHANGED announced
    /\ UNCHANGED <<dashboard, focus, promotion>>

NextAnnounce ==
    \/ \E message \in MessageInputs, priority \in PriorityInputs : announce(message, priority)
    \/ TimerFires

SpecAnnounce == InitAnnounce /\ [][NextAnnounce]_vars

\* C24: each write of a message into a live region changes the content of
\* the region: the region does not hold that message already, having been
\* cleared by the announce call the write belongs to.
C24_WriteChangesContent ==
    [][TimerFires => liveRegions[Head(timers).region] # Head(timers).message]_vars

\* C25: an announce call and the write it leaves to its timer change the
\* content of the region matching the priority only, and once no timer is
\* pending each region holds the message of the latest announce call made
\* with its priority (nothing, if there was none).
C25_RegionHoldsLatest ==
    [][/\ \A message \in MessageInputs, priority \in PriorityInputs :
             announce(message, priority) =>
                \A r \in DOMAIN liveRegions \ {Matching(priority)} : liveRegions'[r] = liveRegions[r]
       /\ timers' = <<>> => \A r \in DOMAIN liveRegions : liveRegions'[r] = announced'[r]
      ]_vars

\* C25's case: announce calls of both priorities have been made, two of them
\* for the polite region with different messages, every timer has run, and
\* each region holds the latest message of its priority.
C25_Witness ==
    /\ last.call = "setTimeout"
    /\ timers = <<>>
    /\ announced[PoliteRegion] = "Y"
    /\ liveRegions = [r \in Regions |-> IF r = PoliteRegion THEN "Y" ELSE "X"]

\* ======================================================== promotion script
\* scripts/promote_to_production.sh.  The script runs under set -e: a command
\* that fails ends the run, unless the script tests its status.  One action
\* is one section of the script; its parameter stop is the position, within
\* the section, of the first command that fails (0 when none does).
\*
\* What the run has executed: a command, with how it ended, or a prompt,
\* with the reply read.
Ran(do, what, out) == [do |-> do, what |-> what, out |-> out]

Git(what, ok) == Ran("git", what, IF ok THEN "ok" ELSE "failed")

\* The commands cmds of a section, up to and including the one that fails.
Upto(cmds, stop) ==
    [k \in 1..(IF stop = 0 THEN Len(cmds) ELSE stop) |-> Git(cmds[k], k # stop)]

\* The run after a section: at the next section when no command failed,
\* ended with status 1 otherwise.
After(cmds, stop, next) ==
    [promotion EXCEPT !.at = IF stop = 0 THEN next ELSE "exit 1",
                      !.ran = @ \o Upto(cmds, stop)]

\* The first arguments the script is run with, character by character.
VersionInputs ==
    {<<>>,
     <<"v", "2", ".", "1", ".", "0">>,
     <<"v", "1", "0", ".", "0", ".", "1", "2">>,
     <<"2", ".", "1", ".", "0">>,
     <<"v", "2", ".", "1">>,
     <<"v", "2", ".", ".", "0">>,
     <<"v", "2", ".", "1", ".", "0", "-", "r", "c">>}

\* What is typed at a prompt.
ReplyInputs == {"y", "Y", "n", "yes", ""}

IsDigit(c) == c \in {"0", "1", "2", "3", "4", "5", "6", "7", "8", "9"}

\* [0-9]+ from position i of v: the position after the digits.
RECURSIVE SkipDigits(_, _)
SkipDigits(v, i) ==
    IF i <= Len(v) /\ IsDigit(v[i]) THEN SkipDigits(v, i + 1) ELSE i

\* The pattern of line 32 without its closing anchor.
MatchesVersionPrefix(v) ==
    /\ Len(v) >= 1
    /\ v[1] = "v"
    /\ LET a == SkipDigits(v, 2)
           b == SkipDigits(v, a + 1)
           c == SkipDigits(v, b + 1)
       IN /\ a > 2 /\ a <= Len(v) /\ v[a] = "."
          /\ b > a + 1 /\ b <= Len(v) /\ v[b] = "."
          /\ c > b + 1

\* Line 32: $VERSION =~ ^v[0-9]+\.[0-9]+\.[0-9]+$
MatchesVersion(v) ==
    /\ Len(v) >= 1
    /\ v[1] = "v"
    /\ LET a == SkipDigits(v, 2)
           b == SkipDigits(v, a + 1)
           c == SkipDigits(v, b + 1)
       IN /\ a > 2 /\ a <= Len(v) /\ v[a] = "."
          /\ b > a + 1 /\ b <= Len(v) /\ v[b] = "."
          /\ c > b + 1 /\ c = Len(v) + 1

\* Lines 101, 205, 246 and 265: $REPLY =~ ^[Yy]$
Yes(reply) == reply \in {"y", "Y"}

\* Lines 22-39: the version argument is checked.
StartPromotion(argument) ==
    /\ promotion.at = "not started"
    /\ promotion' =
          IF argument = <<>>
          THEN [at |-> "exit 1", argument |-> argument, ran |-> <<>>]
          ELSE IF ~MatchesVersion(argument)
          THEN [at |-> "exit 1", argument |-> argument,
                ran |-> <<Ran("test", "version format", "failed")>>]
          ELSE [at |-> "pre-flight", argument |-> argument,
                ran |-> <<Ran("test", "version format", "ok")>>]
    /\ last' = Last("promote_to_production.sh", 0, 0, <<>>)
    /\ UNCHANGED <<dashboard, focus, announcer>>

\* Lines 41-76, step 1: git is installed, the directory is a repository,
\* git status --porcelain prints nothing, the fetch succeeds and the staging
\* branch exists on the remote.
PreFlightChecks(stop) ==
    /\ promotion.at = "pre-flight"
    /\ promotion' = After(<<"command -v git", "-d .git", "status --porcelain", "fetch origin",
                            "rev-parse --verify origin/staging">>, stop, "staging")
    /\ last' = Last("step 1", stop, 0, <<>>)
    /\ UNCHANGED <<dashboard, focus, announcer>>

\* Lines 79-85, step 2.
UpdateStaging(stop) ==
    /\ promotion.at = "staging"
    /\ promotion' = After(<<"checkout staging", "pull origin staging">>, stop, "tests")
    /\ last' = Last("step 2", stop, 0, <<>>)
    /\ UNCHANGED <<dashboard, focus, announcer>>

\* Lines 87-115, step 3: the tests are skipped without python3 or without
\* backend/tests/conftest.py; a failed test run asks whether to continue.
RunTests(tests, response) ==
    /\ promotion.at = "tests"
    /\ promotion' =
          IF tests \in {"no python", "no tests"}
          THEN [promotion EXCEPT !.at = "release branch"]
          ELSE IF tests = "passed"
          THEN [promotion EXCEPT !.at = "release branch",
                                 !.ran = Append(@, Ran("test", "pytest", "ok"))]
          ELSE [promotion EXCEPT !.at = IF Yes(response) THEN "release branch" ELSE "exit 1",
                                 !.ran = @ \o <<Ran("test", "pytest", "failed"),
                                                Ran("read", "Continue anyway?", response)>>]
    /\ last' = Last("step 3", 0, 0, <<>>)
    /\ UNCHANGED <<dashboard, focus, announcer>>

\* Lines 117-129, step 4: the release branch is checked out, created first
\* when it does not exist.
CreateReleaseBranch(exists, stop) ==
    /\ promotion.at = "release branch"
    /\ promotion' = After(<<IF exists THEN "checkout release" ELSE "checkout -b release">>,
                          stop, "changelog")
    /\ last' = Last("step 4", stop, 0, <<>>)
    /\ UNCHANGED <<dashboard, focus, announcer>>

\* Lines 131-191, step 5: the release notes are written; git describe is
\* guarded by || (line 148), git log is not.
GenerateChangelog(stop) ==
    /\ promotion.at = "changelog"
    /\ promotion' = After(<<"log --oneline --no-merges">>, stop, "review")
    /\ last' = Last("step 5", stop, 0, <<>>)
    /\ UNCHANGED <<dashboard, focus, announcer>>

\* Lines 193-209, step 6: the changes are listed and the first prompt is
\* read.
ReviewChanges(reply) ==
    /\ promotion.at = "review"
    /\ promotion' = [promotion EXCEPT !.at = IF Yes(reply) THEN "merge" ELSE "exit 1",
                                      !.ran = Append(@, Ran("read", "Continue with promotion?", reply))]
    /\ last' = Last("step 6", 0, 0, <<>>)
    /\ UNCHANGED <<dashboard, focus, announcer>>

\* Lines 211-222, step 7.
MergeToProduction(stop) ==
    /\ promotion.at = "merge"
    /\ promotion' = After(<<"checkout main", "pull origin main", "merge --no-ff release">>,
                          stop, "tag")
    /\ last' = Last("step 7", stop, 0, <<>>)
    /\ UNCHANGED <<dashboard, focus, announcer>>

\* Lines 224-237, step 8: the tag is created unless it exists.
TagRelease(exists, stop) ==
    /\ promotion.at = "tag"
    /\ promotion' = IF exists
                    THEN [promotion EXCEPT !.at = "push"]
                    ELSE After(<<"tag -a version">>, stop, "push")
    /\ last' = Last("step 8", stop, 0, <<>>)
    /\ UNCHANGED <<dashboard, focus, announcer>>

\* Lines 239-258: the second prompt is read; on yes the production branch
\* and the tag are pushed, otherwise the run ends with status 0.
PushToRemote(reply, stop) ==
    /\ promotion.at = "push"
    /\ LET asked == [promotion EXCEPT
                        !.ran = Append(@, Ran("read", "Push to remote and deploy?", reply))]
       IN promotion' =
             IF ~Yes(reply)
             THEN [asked EXCEPT !.at = "exit 0"]
             ELSE [asked EXCEPT !.at = IF stop = 0 THEN "cleanup" ELSE "exit 1",
                                !.ran = @ \o Upto(<<"push origin main", "push origin version">>, stop)]
    /\ last' = Last("push", stop, 0, <<>>)
    /\ UNCHANGED <<dashboard, focus, announcer>>

\* Lines 260-270: the third prompt; on yes the release branch is deleted,
\* locally (a failure ends the run) and on the remote (a failure is ignored,
\* line 267).
Cleanup(reply, stop, deleted) ==
    /\ promotion.at = "cleanup"
    /\ LET asked == [promotion EXCEPT
                        !.ran = Append(@, Ran("read", "Delete release branch?", reply))]
       IN promotion' =
             IF ~Yes(reply)
             THEN [asked EXCEPT !.at = "done"]
             ELSE IF stop # 0
             THEN [asked EXCEPT !.at = "exit 1", !.ran = Append(@, Git("branch -d release", FALSE))]
             ELSE [asked EXCEPT !.at = "done",
                                !.ran = @ \o <<Git("branch -d release", TRUE),
                                               Git("push origin --delete release", deleted)>>]
    /\ last' = Last("cleanup", stop, 0, <<>>)
    /\ UNCHANGED <<dashboard, focus, announcer>>

NextPromotion ==
    \/ \E argument \in VersionInputs : StartPromotion(argument)
    \/ \E stop \in 0..5 : PreFlightChecks(stop)
    \/ \E stop \in 0..2 : UpdateStaging(stop)
    \/ \E tests \in {"no python", "no tests", "passed", "failed"}, response \in ReplyInputs :
          RunTests(tests, response)
    \/ \E exists \in BOOLEAN, stop \in 0..1 : CreateReleaseBranch(exists, stop)
    \/ \E stop \in 0..1 : GenerateChangelog(stop)
    \/ \E reply \in ReplyInputs : ReviewChanges(reply)
    \/ \E stop \in 0..3 : MergeToProduction(stop)
    \/ \E exists \in BOOLEAN, stop \in 0..1 : TagRelease(exists, stop)
    \/ \E reply \in ReplyInputs, stop \in 0..2 : PushToRemote(reply, stop)
    \/ \E reply \in ReplyInputs, stop \in 0..1, deleted \in BOOLEAN : Cleanup(reply, stop, deleted)

SpecPromotion == Init /\ [][NextPromotion]_vars

\* The positions of the run at which a command or prompt what ended in one
\* of outs.
Steps(what, outs) ==
    {k \in 1..Len(promotion.ran) :
        promotion.ran[k].what = what /\ promotion.ran[k].out \in outs}

\* The positions of the run at which a git push was executed, whatever it
\* pushed and however it ended.
Pushes ==
    {k \in 1..Len(promotion.ran) :
        promotion.ran[k].what \in {"push origin main", "push origin version",
                                   "push origin --delete release"}}

\* The arguments of VersionInputs of the form vMAJOR.MINOR.PATCH.
WellFormedVersions ==
    {<<"v", "2", ".", "1", ".", "0">>, <<"v", "1", "0", ".", "0", ".", "1", "2">>}

\* C26 as stated: every git push of a run comes after, in this order, the
\* version argument matching vMAJOR.MINOR.PATCH, the working tree found
\* clean, the merge of the release into the production branch, a yes to
\* "Continue with promotion?" and a yes to "Push to remote and deploy?".
C26_PushAfterMergeThenBothPrompts ==
    \A k \in Pushes :
       /\ promotion.argument \in WellFormedVersions
       /\ \E i1 \in Steps("version format", {"ok"}), i2 \in Steps("status --porcelain", {"ok"}),
             i3 \in Steps("merge --no-ff release", {"ok"}),
             i4 \in Steps("Continue with promotion?", {"y", "Y"}),
             i5 \in Steps("Push to remote and deploy?", {"y", "Y"}) :
             i1 < i2 /\ i2 < i3 /\ i3 < i4 /\ i4 < i5 /\ i5 < k

\* C26, amended: every git push of a run comes after, in this order, the
\* version argument matching vMAJOR.MINOR.PATCH, the working tree found
\* clean, a yes to "Continue with promotion?", the merge of the release into
\* the production branch and a yes to "Push to remote and deploy?".
C26_PushAfterPromptMergePrompt ==
    \A k \in Pushes :
       /\ promotion.argument \in WellFormedVersions
       /\ \E i1 \in Steps("version format", {"ok"}), i2 \in Steps("status --porcelain", {"ok"}),
             i3 \in Steps("Continue with promotion?", {"y", "Y"}),
             i4 \in Steps("merge --no-ff release", {"ok"}),
             i5 \in Steps("Push to remote and deploy?", {"y", "Y"}) :
             i1 < i2 /\ i2 < i3 /\ i3 < i4 /\ i4 < i5 /\ i5 < k

\* C26's case: a run has pushed the production branch and the tag.
C26_Witness ==
    /\ promotion.at = "done"
    /\ Steps("push origin main", {"ok"}) # {}
    /\ Steps("push origin version", {"ok"}) # {}

\* ================================================== ranked-candidates modal
\* company.js, viewJobCandidates: a .modal element like the confirmation
\* dialogs, appended with a loading placeholder and filled in when the
\* ranked candidates have arrived.
CandidatesModal(kind) == [kind |-> kind, appId |-> 0, newStatus |-> "", held |-> {}, hidden |-> FALSE]

\* Lines 658-667: the View Candidates button of a job card (line 147).
viewJobCandidates ==
    /\ Len(modals) < MaxModals
    /\ modals' = Append(modals, CandidatesModal("candidates loading"))
    /\ last' = Last("viewJobCandidates", 0, 0, <<>>)
    /\ UNCHANGED <<server, selectedApplications, currentStatusFilter, view, fetches, ops>>
    /\ UNCHANGED <<focus, announcer, promotion>>

\* Lines 668-830: the ranked candidates have arrived and the modal shows
\* them (ok), or the request failed and the modal shows the error.  The
\* handler writes into the element it created, wherever that is by then.
CandidatesArrive(k, ok) ==
    /\ k \in 1..Len(modals)
    /\ modals[k].kind = "candidates loading"
    /\ modals' = [modals EXCEPT ![k].kind = IF ok THEN "candidates" ELSE "candidates error"]
    /\ last' = Last("viewJobCandidates", 1, 0, <<>>)
    /\ UNCHANGED <<server, selectedApplications, currentStatusFilter, view, fetches, ops>>
    /\ UNCHANGED <<focus, announcer, promotion>>

\* Lines 779-783: the Shortlist button of a candidate in the modal calls
\* updateApplicationStatus(application_id, 'shortlisted'), which appends the
\* confirmation dialog (lines 538-562) after the modal.
shortlistCandidate(appId) ==
    /\ \E k \in 1..Len(modals) : modals[k].kind = "candidates" /\ ~modals[k].hidden
    /\ Len(modals) < MaxModals
    /\ modals' = Append(modals, StatusModal(appId, "shortlisted"))
    /\ last' = Last("updateApplicationStatus", 0, 0, <<>>)
    /\ UNCHANGED <<server, selectedApplications, currentStatusFilter, view, fetches, ops>>
    /\ UNCHANGED <<focus, announcer, promotion>>

NextCandidates ==
    \/ switchCompanyTab
    \/ \E f \in BagToSet(fetches) : ServeList(f, TRUE)
    \/ \E f \in BagToSet(fetches) : ListArrives(f)
    \/ \E appId \in Ids, newStatus \in StatusInputs : updateApplicationStatus(appId, newStatus)
    \/ viewJobCandidates
    \/ \E k \in 1..MaxModals, ok \in BOOLEAN : CandidatesArrive(k, ok)
    \/ \E appId \in Ids : shortlistCandidate(appId)
    \/ closeOpenElements
    \/ \E k \in 1..MaxModals : closeModal(k)
    \/ \E k \in 1..MaxModals : confirmStatusUpdate(k)
    \/ \E i \in 1..MaxOps, id \in Ids, s \in Settlements : SingleSettles(i, id, s)
    \/ \E i \in 1..MaxOps, id \in Ids, parsed \in BOOLEAN : SingleErrorBody(i, id, parsed)

SpecCandidates == Init /\ [][NextCandidates]_vars

\* The modals of doc other than the confirmation dialogs of the update of
\* appId to newStatus.
Unrelated(doc, appId, newStatus) ==
    SelectSeq(Dialogs(doc),
              LAMBDA m : ~(m.kind = "status" /\ m.appId = appId /\ m.newStatus = newStatus))

\* C27: the step that ends a single status update with success removes one
\* confirmation dialog of that update, if the document has one, and no
\* other modal: the ranked-candidates modal and the dialogs of other
\* updates, hidden or not, stay in the document.
C27_ConfirmedDialogIsRemoved ==
    [][\A i \in 1..MaxOps, id \in Ids :
          (/\ ops[i].kind = "single"
           /\ ops[i].ids = {id}
           /\ ops'[i] = FreeOp
           /\ last'.call = "confirmStatusUpdate.ok") =>
             /\ Unrelated(modals', id, ops[i].status) = Unrelated(modals, id, ops[i].status)
             /\ Len(modals) > Len(Unrelated(modals, id, ops[i].status)) =>
                   Len(modals') = Len(modals) - 1
      ]_vars

\* C28: the step that ends a bulk update with the success notification
\* shows, as its count, the number of update requests that bulk update
\* dispatched, and takes out of the Selection Set the ids those requests
\* were for, and no other.
C28_CountAndRemovalMatchDispatch ==
    [][\A i \in 1..MaxOps :
          (/\ ops[i].kind = "bulk"
           /\ ops[i].outcome = "none"
           /\ last'.call = "confirmBulkUpdate.then") =>
             /\ last'.notes[1].n = Cardinality(ops[i].ids)
             /\ selectedApplications' = selectedApplications \ ops[i].ids
      ]_vars

\* C29: while no list fetch is outstanding and the view shows the table of
\* the last list fetched, the active tab is the current filter, the rows are
\* the records of that list matching the filter (all of them, and no
\* other), the checked rows are the rows whose id is in the Selection Set,
\* and the Clear / Update Selected buttons are shown exactly when the
\* Selection Set is not empty.
C29_ViewAgreesWithState ==
    (fetches = EmptyBag /\ view.kind = "table") =>
       /\ view.tab = currentStatusFilter
       /\ \A k \in 1..Len(view.rows) :
             currentStatusFilter = "all" \/ view.rows[k].status = currentStatusFilter
       /\ Len(view.rows) = IF currentStatusFilter = "all"
                           THEN view.stats.total
                           ELSE view.stats[currentStatusFilter]
       /\ view.checked = RowIds(view.rows) \cap selectedApplications
       /\ view.buttons <=> selectedApplications # {}

\* C29's case: no list fetch is outstanding; under the filter "pending" the
\* table shows one of the two records fetched, which is selected and checked,
\* and the buttons are shown.
C29_Witness ==
    /\ fetches = EmptyBag
    /\ view.kind = "table"
    /\ currentStatusFilter = "pending"
    /\ view.stats.total = MaxApps
    /\ Len(view.rows) = 1
    /\ selectedApplications = RowIds(view.rows)
    /\ view.checked = selectedApplications
    /\ view.buttons
====
